---- MODULE Spec2Model ----
(***************************************************************************)
(* Crawl pipeline of scrape_doctors.py: TibbiPortalScraper (admission      *)
(* gate, get_page retry loop, listing and detail stages, scrape_page,      *)
(* scrape_all_doctors batching, save_to_csv) and main().                   *)
(*                                                                         *)
(* Tasks are the asyncio tasks of the program: the main task, one page     *)
(* task per listing page of the running batch, one detail task per stub.   *)
(* A step of the model is what a task does between two suspension points.  *)
(***************************************************************************)
EXTENDS Integers, Sequences, FiniteSets, TLC

\* ---------------------------------------------------------------- bounds
MaxConc  == 2      \* max_concurrent ranges over 1..MaxConc
MaxBatch == 2      \* batch_size ranges over 1..MaxBatch
MaxPage  == 2      \* end_page ranges over start_page..MaxPage
MaxItems == 2      \* entries of one listing document
MaxFaults == 1     \* exceptions escaping a task in one run
MaxFails == 3      \* failed fetch attempts in one run
MaxStubs == 2      \* stubs found in one run

\* ------------------------------------------------------ program constants
max_retries == 3   \* get_page(url, max_retries=3)
start_page == 1    \* main(): start_page = 1

Pages == 1..(MaxPage + 1)     \* the listing pages of the site: one more than the longest range
Slots == 0..MaxItems          \* 0: the listing fetch of a page, i > 0: stub i

\* ------------------------------------------------------------- documents
\* An entry of a listing document: section#doctors .item with its optional
\* <a href>, <h3> and <p>.  "-" stands for an absent element.
Absent == "-"
Items ==
  { [href |-> Absent,       h3 |-> "A", p |-> "P"],
    [href |-> "/d1",        h3 |-> "A", p |-> "P"],
    [href |-> "http://h/d2", h3 |-> "A", p |-> Absent],
    [href |-> "/d1",        h3 |-> Absent, p |-> "P"] }

RECURSIVE SeqsUpTo(_, _)
SeqsUpTo(S, n) ==
  IF n = 0 THEN { <<>> }
  ELSE LET shorter == SeqsUpTo(S, n - 1)
       IN  shorter \cup { Append(s, x) : s \in { t \in shorter : Len(t) = n - 1 }, x \in S }

ListingDocs == SeqsUpTo(Items, MaxItems)

\* A detail document: widget title, .rateItemCount and the fa-user-md list
\* item, each optional.
DetailDocs ==
  { [title |-> "B42",  likes |-> "42",   user_md |-> Absent],
    [title |-> "42",   likes |-> Absent, user_md |-> "S"] }

\* href.startswith('http')
StartsWithHttp(h) == h \in { "http://h/d2" }

\* self.base_url + href
BaseJoin(h) == IF h = "/d1" THEN "https://tibbiportal.az/d1" ELSE h

\* re.match(r'^([^\d]+)', title_text): the leading run of non-digits, or no
\* match when the text starts with a digit.
NameMatch(t) == IF t = "B42" THEN "B" ELSE Absent

\* A merge that keeps the value a key already has.
UpdateKeepFirst(a, b) ==
  [k \in DOMAIN a \cup DOMAIN b |-> IF k \in DOMAIN a THEN a[k] ELSE b[k]]

\* dict.update: the keys of b overwrite or extend those of a.
Update(a, b) ==
  [k \in DOMAIN a \cup DOMAIN b |-> IF k \in DOMAIN b THEN b[k] ELSE a[k]]

\* One key/value pair as a dict.
Pair(k, v) == [x \in {k} |-> v]

\* A body of the loop that asks for the link only.
ParseItemLinkOnly(item) ==
  IF item.href # Absent
  THEN << [url |-> IF StartsWithHttp(item.href) THEN item.href ELSE BaseJoin(item.href),
           name |-> item.h3,
           specialty_preview |-> IF item.p # Absent THEN item.p ELSE ""] >>
  ELSE << >>

\* The body of the for loop of extract_doctor_links_from_listing for one
\* entry: a stub when both the link and the name are present, else nothing.
ParseItem(item) ==
  IF item.href # Absent /\ item.h3 # Absent
  THEN << [url |-> IF StartsWithHttp(item.href) THEN item.href ELSE BaseJoin(item.href),
           name |-> item.h3,
           specialty_preview |-> IF item.p # Absent THEN item.p ELSE ""] >>
  ELSE << >>

RECURSIVE ParseListing(_)
ParseListing(doc) ==
  IF doc = << >> THEN << >>
  ELSE ParseItem(Head(doc)) \o ParseListing(Tail(doc))

\* The try block of extract_doctor_details: the fields found in the
\* document are added to details.
ParseFields(d0, doc) ==
  LET d1 == IF doc.title # Absent /\ NameMatch(doc.title) # Absent
            THEN Update(d0, Pair("name", NameMatch(doc.title))) ELSE d0
      d2 == IF doc.likes # Absent THEN Update(d1, Pair("likes", doc.likes)) ELSE d1
      d3 == IF doc.user_md # Absent THEN Update(d2, Pair("specialty", doc.user_md)) ELSE d2
  IN  d3

\* Details keyed by the address the site redirected the request to.
ParseDetailsFinalUrl(doctor_url, doc) == ParseFields([url |-> "https://tibbiportal.az"], doc)

\* extract_doctor_details after a successful fetch.
ParseDetails(doctor_url, doc) == ParseFields([url |-> doctor_url], doc)

\* Details that carry blank defaults for the fields that were not fetched.
FailedDetailsBlank(doctor_url) == [url |-> doctor_url, name |-> ""]

\* extract_doctor_details when get_page returned None.
FailedDetails(doctor_url) == [url |-> doctor_url]

\* fieldnames of save_to_csv: every field a record can carry.
FieldNames ==
  { "name", "specialty", "specialty_preview", "experience", "phone", "work_hours",
    "workplace", "workplace_url", "likes", "url" }

\* ----------------------------------------------------------------- state
VARIABLES
  max_concurrent,  \* TibbiPortalScraper(max_concurrent)
  batch_size,      \* scrape_all_doctors(batch_size)
  end_page,        \* scrape_all_doctors(end_page)
  mainpc,          \* position of the main task
  batch_start,     \* loop variable of scrape_all_doctors
  ppc,             \* ppc[p]: position of the page task scrape_page(p)
  stubs,           \* stubs[p]: the list `doctors` of scrape_page(p)
  fetch,           \* fetch[p][i]: the get_page call of slot i of page p
  det,             \* det[p][i]: << result of extract_doctor_details >> once settled
  doctors_data,    \* self.doctors_data
  origin,          \* origin[k]: the <<page, stub index>> doctors_data[k] came from
  sem,             \* self.semaphore._value
  session,         \* self.session: "none", "open", "closed"
  sink,            \* the save_to_csv invocations so far
  exit,            \* how main() ended: "running", "returned", "raised", "cancelled"
  intr,            \* an interrupt was delivered
  nfaults          \* exceptions that escaped a task so far

vars == << max_concurrent, batch_size, end_page, mainpc, batch_start, ppc, stubs,
           fetch, det, doctors_data, origin, sem, session, sink, exit, intr, nfaults >>

config == << max_concurrent, batch_size, end_page >>

\* A get_page call: st is "none" (not called), "wait" (blocked on the gate),
\* "req" (permit held, request in flight), "sleep" (permit held, backoff),
\* "ok" (returned a document), "fail" (returned None), "raised" (an exception
\* escaped), "cancelled".  attempt is the loop variable; hist, acq, rel and
\* sleeps record what the call did.
NoCall == [st |-> "none", attempt |-> 0, hist |-> << >>, acq |-> 0, rel |-> 0, sleeps |-> 0]

\* The state after construction: TibbiPortalScraper.__init__, nothing run yet.
Fresh ==
  /\ mainpc = "start"
  /\ batch_start = start_page
  /\ ppc = [p \in Pages |-> "idle"]
  /\ stubs = [p \in Pages |-> << >>]
  /\ fetch = [p \in Pages |-> [i \in Slots |-> NoCall]]
  /\ det = [p \in Pages |-> [i \in 1..MaxItems |-> << >>]]
  /\ doctors_data = << >>
  /\ origin = << >>
  /\ sem = max_concurrent
  /\ session = "none"
  /\ sink = << >>
  /\ exit = "running"
  /\ intr = FALSE
  /\ nfaults = 0

\* The arguments main passes: TibbiPortalScraper(max_concurrent=...) and
\* scrape_all_doctors(start_page, end_page, batch_size).
Init ==
  /\ max_concurrent \in 1..MaxConc
  /\ batch_size \in 1..MaxBatch
  /\ end_page \in start_page..MaxPage
  /\ Fresh

\* ------------------------------------------------------------ the gate
\* A gate that never reports itself full.
LockedNever(v) == FALSE

\* asyncio.Semaphore.locked()
Locked(v) == v = 0

\* A release that loses the permit.
SemReleaseLost(v) == v

\* asyncio.Semaphore.release()
SemRelease(v) == v + 1

\* A gate held per attempt: the permit is given back for the backoff sleep.
HoldsPermitReqOnly(st) == st = "req"

\* `async with self.semaphore` leaves through __aexit__ whenever the body was
\* entered: a cancelled call gives its permit back iff it held one.
HoldsPermit(st) == st \in {"req", "sleep"}

InProgress(st) == st \in {"wait", "req", "sleep"}

Holders == { pi \in Pages \X Slots : HoldsPermit(fetch[pi[1]][pi[2]].st) }

\* --------------------------------------------------------- get_page
\* except Exception: the kinds of failed attempt it catches (asyncio timeout,
\* aiohttp transport error, raise_for_status on a non-success status).
FailKinds == {"timeout", "transport", "status"}
\* A handler that misses the exception of raise_for_status.
CaughtNarrow(kind) == kind \in {"timeout", "transport"}

Caught(kind) == kind \in {"timeout", "transport", "status"}

\* A handler that sleeps after every failed attempt, the last one included.
ShouldRetryAlways(attempt) == attempt < max_retries

\* if attempt < max_retries - 1
ShouldRetry(attempt) == attempt < max_retries - 1

\* for attempt in range(max_retries)
InRange(attempt) == attempt < max_retries

\* The call record with one more attempt outcome noted.
Noted(c, outcome) == [c EXCEPT !.hist = Append(@, outcome)]

\* The call record after leaving `async with` in state st.
Leave(c, st) == [c EXCEPT !.st = st, !.rel = @ + 1]

\* The call record when the backoff sleep is over: the next iteration issues
\* a request, or the loop is exhausted and line 51 returns None.
AfterSleep(c) ==
  IF InRange(c.attempt + 1)
  THEN [c EXCEPT !.st = "req", !.attempt = @ + 1]
  ELSE Leave([c EXCEPT !.attempt = @ + 1], "fail")

\* A success path without its return: the loop goes on to the next attempt.
AfterSuccessNoReturn(c) == AfterSleep(Noted(c, "ok"))

\* The call record after a successful attempt: return BeautifulSoup(html).
AfterSuccess(c) == Leave(Noted(c, "ok"), "ok")

\* An escaped exception turned into the failure value None.
AfterFaultAsNone(c) == Leave(Noted(c, "fault"), "fail")

\* The call record when an exception that is no attempt outcome escapes.
AfterFault(c) == Leave(Noted(c, "fault"), "raised")

\* The call record after a failed attempt of the given kind (lines 45-50).
AfterFailure(c, kind) ==
  IF ~Caught(kind) THEN Leave(Noted(c, "fail"), "raised")
  ELSE IF ShouldRetry(c.attempt)
       THEN [Noted(c, "fail") EXCEPT !.st = "sleep", !.sleeps = @ + 1]
       ELSE Leave(Noted(c, "fail"), "fail")

\* The slots of page p that its detail tasks occupy.
StubSlots(p) == 1..Len(stubs[p])

\* self.semaphore._value once the call of a slot has become c.
GateAfter(c) == IF HoldsPermit(c.st) THEN sem ELSE SemRelease(sem)

\* A listing stage that raises when the page could not be fetched.
AfterListingRaises(st, cur) == IF st \in {"fail", "raised"} THEN "faulted" ELSE cur

\* Where the page task is once the get_page call of its listing stage is in
\* state st: `if not soup: return []` and `if not doctors: return` end the
\* task normally, an exception ends it with that exception.
AfterListing(st, cur) ==
  IF st = "fail" THEN "done"
  ELSE IF st = "raised" THEN "faulted"
  ELSE cur

\* What the caller of get_page does when the call of slot i of page p has
\* become c: nothing while it is still running; on None the listing stage
\* returns [] and scrape_page returns, the detail stage returns {'url': url};
\* an exception unwinds the task.
Resume(p, i, c) ==
  /\ fetch' = [fetch EXCEPT ![p][i] = c]
  /\ sem' = GateAfter(c)
  /\ ppc' = IF i = 0 THEN [ppc EXCEPT ![p] = AfterListing(c.st, @)] ELSE ppc
  /\ det' = IF i > 0 /\ c.st = "fail"
            THEN [det EXCEPT ![p][i] = << FailedDetails(stubs[p][i].url) >>]
            ELSE det

\* What the environment has produced so far: failed attempts and stubs.
RECURSIVE SumOver(_, _)
SumOver(f, S) ==
  IF S = {} THEN 0
  ELSE LET x == CHOOSE y \in S : TRUE IN f[x] + SumOver(f, S \ {x})

FailsOf(c) == Len(SelectSeq(c.hist, LAMBDA o : o = "fail"))
TotalFails ==
  SumOver([pi \in Pages \X Slots |-> FailsOf(fetch[pi[1]][pi[2]])], Pages \X Slots)
TotalStubs == SumOver([p \in Pages |-> Len(stubs[p])], Pages)

\* `async with self.semaphore`: take a permit and issue the first attempt.
Acquire(p, i) ==
  /\ fetch[p][i].st = "wait"
  /\ ~Locked(sem)
  /\ sem' = sem - 1
  /\ fetch' = [fetch EXCEPT ![p][i].st = "req", ![p][i].acq = @ + 1]
  /\ UNCHANGED << config, mainpc, batch_start, ppc, stubs, det, doctors_data, origin,
                  session, sink, exit, intr, nfaults >>

\* An attempt fails (timeout, transport error, non-success status, or any
\* request on a closed session): retry after the backoff, or give up.
FetchErr(p, i, kind) ==
  /\ fetch[p][i].st = "req"
  /\ TotalFails < MaxFails
  /\ Resume(p, i, AfterFailure(fetch[p][i], kind))
  /\ UNCHANGED << config, mainpc, batch_start, stubs, doctors_data, origin,
                  session, sink, exit, intr, nfaults >>

\* asyncio.sleep(2) is over.
SleepDone(p, i) ==
  /\ fetch[p][i].st = "sleep"
  /\ Resume(p, i, AfterSleep(fetch[p][i]))
  /\ UNCHANGED << config, mainpc, batch_start, stubs, doctors_data, origin,
                  session, sink, exit, intr, nfaults >>

\* An exception that `except Exception` does not handle leaves get_page while
\* the request is in flight (one raised by the handler itself, e.g. by the
\* print at line 46): `async with` gives the permit back and the exception
\* unwinds the task.
Fault(p, i) ==
  /\ fetch[p][i].st = "req"
  /\ nfaults < MaxFaults
  /\ nfaults' = nfaults + 1
  /\ Resume(p, i, AfterFault(fetch[p][i]))
  /\ UNCHANGED << config, mainpc, batch_start, stubs, doctors_data, origin,
                  session, sink, exit, intr >>

\* The listing request of page p succeeds: get_page returns the document,
\* extract_doctor_links_from_listing parses it, scrape_page returns when there
\* are no stubs and otherwise starts one detail task per stub.
ListingOk(p, doc) ==
  /\ fetch[p][0].st = "req"
  /\ session = "open"
  /\ LET found == ParseListing(doc)
     IN  /\ TotalStubs + Len(found) <= MaxStubs
         /\ stubs' = [stubs EXCEPT ![p] = found]
         /\ ppc' = [ppc EXCEPT ![p] = IF found = << >> THEN "done" ELSE "details"]
         /\ fetch' = [fetch EXCEPT ![p] =
               [i \in Slots |->
                  IF i = 0 THEN AfterSuccess(fetch[p][0])
                  ELSE IF i <= Len(found) THEN [NoCall EXCEPT !.st = "wait"]
                  ELSE fetch[p][i]]]
  /\ sem' = GateAfter(AfterSuccess(fetch[p][0]))
  /\ UNCHANGED << config, mainpc, batch_start, det, doctors_data, origin,
                  session, sink, exit, intr, nfaults >>

\* The detail request of stub i of page p succeeds: extract_doctor_details
\* parses the document.
DetailOk(p, i, doc) ==
  /\ i \in StubSlots(p)
  /\ fetch[p][i].st = "req"
  /\ session = "open"
  /\ fetch' = [fetch EXCEPT ![p][i] = AfterSuccess(@)]
  /\ det' = [det EXCEPT ![p][i] = << ParseDetails(stubs[p][i].url, doc) >>]
  /\ sem' = GateAfter(AfterSuccess(fetch[p][i]))
  /\ UNCHANGED << config, mainpc, batch_start, ppc, stubs, doctors_data, origin,
                  session, sink, exit, intr, nfaults >>

\* ----------------------------------------------------------- scrape_page
\* for doctor, details in zip(doctors, details_list): doctor.update(details)
Merged(p) == [i \in StubSlots(p) |-> Update(stubs[p][i], det[p][i][1])]

\* An append that replaces what the accumulator held.
ExtendReplace(acc, recs) == recs

\* An append at the front of the accumulator.
ExtendFront(acc, recs) == recs \o acc

\* self.doctors_data.append(doctor), for each record of the page in order.
Extend(acc, recs) == acc \o recs

\* asyncio.gather of the detail tasks returned: merge and append, in order.
PageMerge(p) ==
  /\ ppc[p] = "details"
  /\ \A i \in StubSlots(p) : det[p][i] # << >>
  /\ doctors_data' = Extend(doctors_data, Merged(p))
  /\ origin' = origin \o [i \in StubSlots(p) |-> << p, i >>]
  /\ ppc' = [ppc EXCEPT ![p] = "done"]
  /\ UNCHANGED << config, mainpc, batch_start, stubs, fetch, det, sem,
                  session, sink, exit, intr, nfaults >>

\* asyncio.gather of the detail tasks raises the exception of a detail task
\* as soon as that task has it; the other detail tasks keep running.
PageRaise(p) ==
  /\ ppc[p] = "details"
  /\ \E i \in StubSlots(p) : fetch[p][i].st = "raised"
  /\ ppc' = [ppc EXCEPT ![p] = "faulted"]
  /\ UNCHANGED << config, mainpc, batch_start, stubs, fetch, det, doctors_data, origin,
                  sem, session, sink, exit, intr, nfaults >>

\* ---------------------------------------------------- scrape_all_doctors
Min(a, b) == IF a <= b THEN a ELSE b

\* A batch end that is not clamped to end_page.
BatchEndNoClamp(bs) == bs + batch_size - 1

\* batch_end = min(batch_start + batch_size - 1, end_page)
BatchEnd(bs) == Min(bs + batch_size - 1, end_page)

\* batch_pages = range(batch_start, batch_end + 1)
BatchPages(bs) == bs..BatchEnd(bs)

\* async with TibbiPortalScraper(...) as scraper: __aenter__
Enter ==
  /\ mainpc = "start"
  /\ session' = "open"
  /\ mainpc' = "loop"
  /\ UNCHANGED << config, batch_start, ppc, stubs, fetch, det, doctors_data, origin,
                  sem, sink, exit, intr, nfaults >>

\* One iteration of the batch loop up to `await asyncio.gather(*tasks)`: a
\* page task per page of the batch, each calling get_page on its listing URL.
Dispatch ==
  /\ mainpc = "loop"
  /\ batch_start <= end_page
  /\ ppc' = [p \in Pages |-> IF p \in BatchPages(batch_start) THEN "listing" ELSE ppc[p]]
  /\ fetch' = [p \in Pages |->
                 IF p \in BatchPages(batch_start)
                 THEN [fetch[p] EXCEPT ![0] = [NoCall EXCEPT !.st = "wait"]]
                 ELSE fetch[p]]
  /\ mainpc' = "gather"
  /\ UNCHANGED << config, batch_start, stubs, det, doctors_data, origin,
                  sem, session, sink, exit, intr, nfaults >>

\* A join that only waits for the listings of the batch.
BatchListed(bs) == \A p \in BatchPages(bs) : ppc[p] \in {"details", "done"}

\* await asyncio.gather(*tasks) returns when every page task of the batch
\* has returned.
BatchSettled(bs) == \A p \in BatchPages(bs) : ppc[p] = "done"

\* Every page task of the batch returned: progress report, asyncio.sleep(1).
BatchJoin ==
  /\ mainpc = "gather"
  /\ BatchSettled(batch_start)
  /\ mainpc' = "pause"
  /\ UNCHANGED << config, batch_start, ppc, stubs, fetch, det, doctors_data, origin,
                  sem, session, sink, exit, intr, nfaults >>

\* A page task of the batch raised: gather re-raises in scrape_all_doctors,
\* which has no handler; the other page tasks keep running.
BatchRaise ==
  /\ mainpc = "gather"
  /\ \E p \in BatchPages(batch_start) : ppc[p] = "faulted"
  /\ mainpc' = "exit_err"
  /\ UNCHANGED << config, batch_start, ppc, stubs, fetch, det, doctors_data, origin,
                  sem, session, sink, exit, intr, nfaults >>

\* The inter-batch pause is over: next value of the range.
PauseDone ==
  /\ mainpc = "pause"
  /\ batch_start' = batch_start + batch_size
  /\ mainpc' = "loop"
  /\ UNCHANGED << config, ppc, stubs, fetch, det, doctors_data, origin,
                  sem, session, sink, exit, intr, nfaults >>

\* ------------------------------------------------------------ save_to_csv
\* One invocation: nothing is written when doctors_data is empty.
SaveToCsv(log, filename, data) ==
  Append(log, [dest |-> filename, data |-> data, written |-> data # << >>])

\* ------------------------------------------------------------------ main
\* The loop is exhausted: scrape_all_doctors returns and main saves, still
\* inside `async with`.
Complete ==
  /\ mainpc = "loop"
  /\ batch_start > end_page
  /\ sink' = SaveToCsv(sink, "doctors_data_complete.csv", doctors_data)
  /\ mainpc' = "exit_ok"
  /\ UNCHANGED << config, batch_start, ppc, stubs, fetch, det, doctors_data, origin,
                  sem, session, exit, intr, nfaults >>

\* __aexit__ on the normal path, then main returns.
CloseOk ==
  /\ mainpc = "exit_ok"
  /\ session' = "closed"
  /\ mainpc' = "done"
  /\ exit' = "returned"
  /\ UNCHANGED << config, batch_start, ppc, stubs, fetch, det, doctors_data, origin,
                  sem, sink, intr, nfaults >>

\* A handler that re-raises without saving.
OnErrorNoSave(log, data) == log

\* except Exception: scraper.save_to_csv('doctors_data_error.csv')
OnError(log, data) == SaveToCsv(log, "doctors_data_error.csv", data)

\* __aexit__ with an Exception in flight, then `except Exception`: save and
\* re-raise.
CloseErr ==
  /\ mainpc = "exit_err"
  /\ session' = "closed"
  /\ sink' = OnError(sink, doctors_data)
  /\ mainpc' = "done"
  /\ exit' = "raised"
  /\ UNCHANGED << config, batch_start, ppc, stubs, fetch, det, doctors_data, origin,
                  sem, intr, nfaults >>

\* __aexit__ with KeyboardInterrupt in flight, then `except KeyboardInterrupt`:
\* save; main returns.
CloseKbd ==
  /\ mainpc = "exit_kbd"
  /\ session' = "closed"
  /\ sink' = SaveToCsv(sink, "doctors_data_interrupted.csv", doctors_data)
  /\ mainpc' = "done"
  /\ exit' = "returned"
  /\ UNCHANGED << config, batch_start, ppc, stubs, fetch, det, doctors_data, origin,
                  sem, intr, nfaults >>

\* __aexit__ with CancelledError in flight: neither handler of main matches
\* (CancelledError is a BaseException and no KeyboardInterrupt).
CloseCancel ==
  /\ mainpc = "exit_cancel"
  /\ session' = "closed"
  /\ mainpc' = "done"
  /\ exit' = "cancelled"
  /\ UNCHANGED << config, batch_start, ppc, stubs, fetch, det, doctors_data, origin,
                  sem, sink, intr, nfaults >>

\* ------------------------------------------------------------ asyncio.run
\* Task.cancel() on a get_page call: CancelledError is thrown at its await;
\* `async with` gives the permit back when the body had been entered.
\* A gate that is given back only when the request is cancelled, not the sleep.
ExitsGateReqOnly(st) == st = "req"

ExitsGate(st) == st \in {"req", "sleep"}

Cancelled(c) ==
  IF InProgress(c.st)
  THEN [c EXCEPT !.st = "cancelled", !.rel = IF ExitsGate(c.st) THEN @ + 1 ELSE @]
  ELSE c

\* Every task that is still running is cancelled.
CancelAll ==
  /\ fetch' = [p \in Pages |-> [i \in Slots |-> Cancelled(fetch[p][i])]]
  /\ sem' = sem + Cardinality({ pi \in Pages \X Slots : InProgress(fetch[pi[1]][pi[2]].st)
                                                       /\ ExitsGate(fetch[pi[1]][pi[2]].st) })
  /\ ppc' = [p \in Pages |-> IF ppc[p] \in {"listing", "details"} THEN "cancelled" ELSE ppc[p]]

\* How SIGINT reaches the main coroutine.  "cancel": asyncio.run's handler (or
\* its cleanup after the loop was broken) cancels the main task.  "kbd":
\* KeyboardInterrupt is raised inside a running task step and reaches main's
\* frames; there is no task step to raise it in while main is paused.
IntrModes(pc) == IF pc = "pause" THEN {"cancel"} ELSE {"cancel", "kbd"}

\* An interrupt that cancels the running tasks only: the batch loop goes on.
UnwindResumes(mode) == IF mode = "kbd" THEN "exit_kbd" ELSE "pause"

\* Where the interrupt takes the main task: out of scrape_all_doctors and
\* into __aexit__, with the exception that main's handlers will see.
Unwind(mode) == IF mode = "kbd" THEN "exit_kbd" ELSE "exit_cancel"

Interrupt(mode) ==
  /\ mainpc \in {"loop", "gather", "pause"}
  /\ mode \in IntrModes(mainpc)
  /\ intr' = TRUE
  /\ CancelAll
  /\ mainpc' = Unwind(mode)
  /\ UNCHANGED << config, batch_start, stubs, det, doctors_data, origin,
                  session, sink, exit, nfaults >>

\* main is over and tasks are left: asyncio.run cancels them.
Teardown ==
  /\ mainpc = "done"
  /\ \E p \in Pages, i \in Slots : InProgress(fetch[p][i].st)
  /\ CancelAll
  /\ UNCHANGED << config, mainpc, batch_start, stubs, det, doctors_data, origin,
                  session, sink, exit, intr, nfaults >>

\* --------------------------------------------------------- specification
Next ==
  \/ Enter
  \/ Dispatch
  \/ \E p \in Pages, i \in Slots : Acquire(p, i)
  \/ \E p \in Pages, doc \in ListingDocs : ListingOk(p, doc)
  \/ \E p \in Pages, i \in 1..MaxItems, doc \in DetailDocs : DetailOk(p, i, doc)
  \/ \E p \in Pages, i \in Slots, kind \in FailKinds : FetchErr(p, i, kind)
  \/ \E p \in Pages, i \in Slots : SleepDone(p, i)
  \/ \E p \in Pages, i \in Slots : Fault(p, i)
  \/ \E p \in Pages : PageMerge(p)
  \/ \E p \in Pages : PageRaise(p)
  \/ BatchJoin
  \/ BatchRaise
  \/ PauseDone
  \/ Complete
  \/ CloseOk
  \/ CloseErr
  \/ CloseKbd
  \/ CloseCancel
  \/ \E mode \in {"cancel", "kbd"} : Interrupt(mode)
  \/ Teardown

Spec == Init /\ [][Next]_vars

\* ------------------------------------------------- the plan of batches
\* Runs over ranges of up to MaxPage + 1 pages whose listing pages have no
\* entry: the batch loop with its page tasks, failures, faults and
\* interrupts, without detail tasks.
InitPlan ==
  /\ max_concurrent \in 1..MaxConc
  /\ batch_size \in 1..MaxBatch
  /\ end_page \in start_page..(MaxPage + 1)
  /\ Fresh

NextPlan ==
  \/ Enter
  \/ Dispatch
  \/ \E p \in Pages : Acquire(p, 0)
  \/ \E p \in Pages : ListingOk(p, << >>)
  \/ \E p \in Pages, kind \in FailKinds : FetchErr(p, 0, kind)
  \/ \E p \in Pages : SleepDone(p, 0)
  \/ \E p \in Pages : Fault(p, 0)
  \/ BatchJoin
  \/ BatchRaise
  \/ PauseDone
  \/ Complete
  \/ CloseOk
  \/ CloseErr
  \/ CloseKbd
  \/ CloseCancel
  \/ \E mode \in {"cancel", "kbd"} : Interrupt(mode)
  \/ Teardown

SpecPlan == InitPlan /\ [][NextPlan]_vars

\* ------------------------------------------------ runs left undisturbed
\* Runs in which no interrupt is delivered and no exception escapes
\* get_page: every attempt ends in a document or in a failure the handler
\* catches.  The event loop resumes a task that can run, a request ends and
\* a sleep ends: a step that stays possible is eventually taken.
NextLive ==
  \/ Enter
  \/ Dispatch
  \/ \E p \in Pages, i \in Slots : Acquire(p, i)
  \/ \E p \in Pages, doc \in ListingDocs : ListingOk(p, doc)
  \/ \E p \in Pages, i \in 1..MaxItems, doc \in DetailDocs : DetailOk(p, i, doc)
  \/ \E p \in Pages, i \in Slots, kind \in FailKinds : FetchErr(p, i, kind)
  \/ \E p \in Pages, i \in Slots : SleepDone(p, i)
  \/ \E p \in Pages : PageMerge(p)
  \/ BatchJoin
  \/ PauseDone
  \/ Complete
  \/ CloseOk

SpecLive == Init /\ [][NextLive]_vars /\ WF_vars(NextLive)

\* ------------------------------------------------------------------ claims
Calls == Pages \X Slots
Call(pi) == fetch[pi[1]][pi[2]]

AllFail(h) == \A k \in 1..Len(h) : h[k] = "fail"
OnlyOutcomes(h) == \A k \in 1..Len(h) : h[k] \in {"ok", "fail"}

\* C1: the get_page calls holding the admission gate, listing and detail
\* fetches of all batches together, never number more than max_concurrent.
C1_GateCap == Cardinality(Holders) <= max_concurrent

\* The gate is full with a listing fetch and a detail fetch while another
\* call waits for it.
C1_Witness ==
  /\ Cardinality(Holders) = max_concurrent
  /\ \E pi \in Holders : pi[2] = 0
  /\ \E pi \in Holders : pi[2] > 0
  /\ \E pi \in Calls : Call(pi).st = "wait"

\* C2: a call whose attempts so far contain a success failed on exactly the
\* attempts before it, it has returned the document, the success is its last
\* attempt, and it took at most max_retries attempts, one per loop iteration.
C2_RetryExact ==
  \A pi \in Calls :
    LET c == Call(pi) IN
      (\E k \in 1..Len(c.hist) : c.hist[k] = "ok") =>
        /\ c.hist[Len(c.hist)] = "ok"
        /\ AllFail(SubSeq(c.hist, 1, Len(c.hist) - 1))
        /\ c.st = "ok"
        /\ Len(c.hist) <= max_retries
        /\ c.attempt = Len(c.hist) - 1

\* A call that succeeded on its last permitted attempt, after max_retries - 1
\* failures.
C2_Witness ==
  \E pi \in Calls :
    /\ Call(pi).st = "ok"
    /\ Len(Call(pi).hist) = max_retries
    /\ pi[2] > 0

\* C3: a call whose attempts ended in a document or in a failure of the kinds
\* get_page handles never leaves by an exception; it returns None exactly
\* when max_retries attempts have failed, and a document otherwise.
C3_NeverRaises ==
  \A pi \in Calls :
    LET c == Call(pi) IN
      OnlyOutcomes(c.hist) =>
        /\ c.st # "raised"
        /\ c.st = "fail" => (Len(c.hist) = max_retries /\ AllFail(c.hist))
        /\ (Len(c.hist) = max_retries /\ AllFail(c.hist)) => c.st = "fail"
        /\ Len(c.hist) <= max_retries

\* A listing call and a detail call can both end in None after max_retries
\* failed attempts.
C3_Witness ==
  \E pi \in Calls :
    /\ Call(pi).st = "fail"
    /\ Len(Call(pi).hist) = max_retries
    /\ pi[2] > 0

\* C4: a call takes the gate at most once and gives it back exactly once on
\* every way out (document, None, exception, cancellation); while it holds
\* the gate it has not given it back; and when no call is in progress the
\* gate has all max_concurrent permits.
C4_GateReleased ==
  /\ \A pi \in Calls :
       LET c == Call(pi) IN
         /\ c.acq <= 1 /\ c.rel <= c.acq
         /\ HoldsPermit(c.st) => (c.acq = 1 /\ c.rel = 0)
         /\ c.st \in {"ok", "fail", "raised", "cancelled"} => c.rel = c.acq
         /\ c.st \in {"ok", "fail", "raised"} => c.acq = 1
  /\ sem + Cardinality(Holders) = max_concurrent
  /\ (\A pi \in Calls : ~InProgress(Call(pi).st)) => sem = max_concurrent

\* No call is in progress after one call was cancelled in its backoff sleep,
\* one left by an exception and one was cancelled while waiting for the gate.
C4_Witness ==
  /\ \A pi \in Calls : ~InProgress(Call(pi).st)
  /\ \E pi \in Calls : /\ Call(pi).st = "cancelled"
                       /\ Call(pi).acq = 1
                       /\ Call(pi).attempt = Len(Call(pi).hist) - 1
  /\ \E pi \in Calls : Call(pi).st = "raised"
  /\ \E pi \in Calls : Call(pi).st = "cancelled" /\ Call(pi).acq = 0

\* The stub, the details and the call behind the k-th record.
StubOf(k) == stubs[origin[k][1]][origin[k][2]]
DetailsOf(k) == det[origin[k][1]][origin[k][2]][1]
CallOf(k) == fetch[origin[k][1]][origin[k][2]]
Records == 1..Len(doctors_data)

IsPrefix(a, b) == Len(a) <= Len(b) /\ SubSeq(b, 1, Len(a)) = a

\* Every stub of page p has its merged record in the accumulator.
HasRecords(p) ==
  \A i \in StubSlots(p) :
    \E k \in Records : origin[k] = << p, i >> /\ doctors_data[k] = Update(stubs[p][i], det[p][i][1])

\* C5: once an interrupt has been delivered the accumulator only grows, the
\* main task is out of the batch loop and no page that had not been
\* dispatched is dispatched; the pages of every batch
\* completed before it have returned and their records are in the
\* accumulator.
C5_CancelKeeps ==
  /\ [](intr => \A p \in start_page..end_page : (p < batch_start \/ ppc[p] = "done") =>
                                   (ppc[p] = "done" /\ HasRecords(p)))
  /\ [][intr' => /\ IsPrefix(doctors_data, doctors_data')
                 /\ \A p \in Pages : ppc[p] = "idle" => ppc'[p] = "idle"
                 /\ mainpc' \notin {"loop", "gather", "pause"}]_vars

\* The run was interrupted and is over; the first batch had completed with a
\* record and a later batch was never started.
C5_Witness ==
  /\ intr /\ mainpc = "done"
  /\ ppc[start_page] = "done" /\ stubs[start_page] # << >> /\ HasRecords(start_page)
  /\ \E p \in (start_page + 1)..end_page : ppc[p] = "idle"

\* The destination main() is meant to save to on the way the run ended.
ExpectedDest ==
  IF intr THEN "doctors_data_interrupted.csv"
  ELSE IF exit = "raised" THEN "doctors_data_error.csv"
  ELSE "doctors_data_complete.csv"

\* C6: when main() is over, save_to_csv has been invoked, last with the
\* destination of the way the run ended and on the accumulator's contents.
C6_SinkOnEveryExit ==
  exit # "running" =>
    /\ Len(sink) >= 1
    /\ sink[Len(sink)].dest = ExpectedDest
    /\ IsPrefix(sink[Len(sink)].data, doctors_data)

\* C7: the details returned for a stub and the record merged from them carry
\* the stub's url, whether the detail fetch returned a document or None.
C7_IdentityKept ==
  /\ \A p \in Pages : \A i \in StubSlots(p) :
       det[p][i] # << >> => det[p][i][1].url = stubs[p][i].url
  /\ \A k \in Records : doctors_data[k].url = StubOf(k).url

\* The accumulator holds a record whose detail fetch failed and one whose
\* detail fetch succeeded.
C7_Witness ==
  /\ \E k \in Records : CallOf(k).st = "fail"
  /\ \E k \in Records : CallOf(k).st = "ok"

\* C8: in every record, a field other than url that the details supply has
\* the details' value; one they do not supply has the stub's value when the
\* stub has it and is absent otherwise.
C8_MergeOverride ==
  \A k \in Records :
    \A f \in FieldNames \ {"url"} :
      IF f \in DOMAIN DetailsOf(k)
      THEN f \in DOMAIN doctors_data[k] /\ doctors_data[k][f] = DetailsOf(k)[f]
      ELSE IF f \in DOMAIN StubOf(k)
           THEN f \in DOMAIN doctors_data[k] /\ doctors_data[k][f] = StubOf(k)[f]
           ELSE f \notin DOMAIN doctors_data[k]

\* A record whose details replaced the stub's name by another one, added
\* likes, left specialty absent and kept the stub's specialty_preview.
C8_Witness ==
  \E k \in Records :
    /\ "name" \in DOMAIN DetailsOf(k)
    /\ DetailsOf(k).name # StubOf(k).name
    /\ doctors_data[k].name = DetailsOf(k).name
    /\ "likes" \in DOMAIN doctors_data[k]
    /\ "specialty" \notin DOMAIN doctors_data[k]
    /\ doctors_data[k].specialty_preview = StubOf(k).specialty_preview

\* C9: when a page task has returned, each of its stubs has exactly one
\* record, so the page has as many records as stubs, and the record of a stub
\* whose detail fetch returned None is the stub itself.
C9_FailedDetailKept ==
  \A p \in Pages :
    ppc[p] = "done" =>
      /\ Cardinality({ k \in Records : origin[k][1] = p }) = Len(stubs[p])
      /\ \A i \in StubSlots(p) :
           /\ Cardinality({ k \in Records : origin[k] = << p, i >> }) = 1
           /\ fetch[p][i].st = "fail" =>
                \A k \in Records : origin[k] = << p, i >> => doctors_data[k] = stubs[p][i]

\* A page returned with two stubs: the detail fetch of one failed on all
\* max_retries attempts, the other succeeded, and both have their record.
C9_Witness ==
  \E p \in Pages :
    /\ ppc[p] = "done" /\ Len(stubs[p]) = 2
    /\ \E i \in StubSlots(p) : fetch[p][i].st = "fail" /\ Len(fetch[p][i].hist) = max_retries
    /\ \E i \in StubSlots(p) : fetch[p][i].st = "ok"
    /\ Len(doctors_data) = 2

\* The listing of page p failed on every attempt, or succeeded with no entry
\* that has both a link and a name.
EmptyListing(p) ==
  \/ fetch[p][0].st = "fail"
  \/ fetch[p][0].st = "ok" /\ stubs[p] = << >>

\* C10: a page with an empty listing has returned normally with no stub, no
\* record and no detail fetch; main() leaves by an exception only when an
\* exception escaped a task; and when main() returns uninterrupted every
\* page of the range has been processed.
C10_EmptyListing ==
  /\ \A p \in Pages :
       EmptyListing(p) =>
         /\ ppc[p] = "done" /\ stubs[p] = << >>
         /\ \A k \in Records : origin[k][1] # p
         /\ \A i \in 1..MaxItems : fetch[p][i].st = "none"
  /\ (mainpc = "exit_err" \/ exit = "raised") => nfaults > 0
  /\ (exit = "returned" /\ ~intr) => \A p \in start_page..end_page : ppc[p] = "done"

\* The run completed normally although the listing of its first page failed
\* on every attempt; the second page contributed a record.
C10_Witness ==
  /\ exit = "returned" /\ ~intr /\ nfaults = 0
  /\ fetch[start_page][0].st = "fail"
  /\ \E p \in (start_page + 1)..end_page : stubs[p] # << >> /\ HasRecords(p)
  /\ sink[Len(sink)].dest = "doctors_data_complete.csv"

\* C11: no two records of the accumulator have the same url, also when the
\* same url is listed twice on one listing page or on two pages of the range.
C11_UniqueUrl ==
  \A k1, k2 \in Records :
    k1 # k2 => doctors_data[k1].url # doctors_data[k2].url

\* A listing entry that has both a link and a name.
HasLinkAndName(item) == item.href # Absent /\ item.h3 # Absent
Listed(doc) == SelectSeq(doc, HasLinkAndName)

\* The state of a run over the single-page range [start_page, start_page]:
\* only that page is ever dispatched, in the one batch of the run, and when
\* the run has completed the accumulator holds one merged record per stub of
\* the page, in order, and is what save_to_csv received.
SinglePageRun ==
  end_page = start_page =>
    /\ \A q \in Pages \ { start_page } :
         ppc[q] = "idle" /\ \A i \in Slots : fetch[q][i].st = "none"
    /\ mainpc = "gather" => batch_start = start_page
    /\ batch_start \in { start_page, start_page + batch_size }
    /\ (exit = "returned" /\ ~intr) =>
         /\ ppc[start_page] = "done"
         /\ Len(doctors_data) = Len(stubs[start_page])
         /\ \A i \in StubSlots(start_page) :
              /\ origin[i] = << start_page, i >>
              /\ doctors_data[i] = Update(stubs[start_page][i], det[start_page][i][1])
         /\ Len(sink) = 1
         /\ sink[1].dest = "doctors_data_complete.csv"
         /\ sink[1].data = doctors_data

\* A listing document gives one stub per entry that has both a link and a
\* name, in document order, with the entry's name and (joined) link.
StubsAreListed ==
  \A p \in Pages, doc \in ListingDocs :
    ListingOk(p, doc) =>
      LET kept == Listed(doc)
      IN  /\ Len(stubs'[p]) = Len(kept)
          /\ \A i \in 1..Len(kept) :
               /\ stubs'[p][i].name = kept[i].h3
               /\ stubs'[p][i].url \in { kept[i].href, BaseJoin(kept[i].href) }

\* C12: a run over a single-page range [p, p] processes one batch holding
\* only page p; on completion the accumulator holds exactly one record per
\* listing entry of page p that has both a link and a name, each merged with
\* its detail fields, and that accumulator is what save_to_csv receives.
C12_SinglePage == []SinglePageRun /\ [][StubsAreListed]_vars

\* A completed run over one page whose listing gave a single stub: the one
\* record carries the likes of its detail document and was saved.
C12_Witness ==
  /\ end_page = start_page /\ exit = "returned" /\ ~intr
  /\ Len(stubs[start_page]) = 1 /\ Len(doctors_data) = 1
  /\ "likes" \in DOMAIN doctors_data[1]
  /\ doctors_data[1].name # stubs[start_page][1].name
  /\ sink = << [dest |-> "doctors_data_complete.csv", data |-> doctors_data, written |-> TRUE] >>

\* The pages that have a page task, and the pages for which a request was
\* ever issued or queued.
Tasked == { p \in Pages : ppc[p] # "idle" }
Fetched == { p \in Pages : \E i \in Slots : fetch[p][i].st # "none" }

\* The pages with a task are an initial stretch of the range, only they are
\* fetched, and at normal completion they are the whole range.
PlanState ==
  /\ Tasked \subseteq start_page..end_page
  /\ Fetched \subseteq Tasked
  /\ Tasked = start_page..(start_page + Cardinality(Tasked) - 1)
  /\ (exit = "returned" /\ ~intr) => Tasked = start_page..end_page

\* Pages get their task batch by batch: the pages of a new batch are the
\* next batch_size pages after the ones already tasked, fewer only when the
\* batch ends at end_page, never none; all batches before it were full; and
\* a page that has a task is never given another one.
PlanStep ==
  LET New == { p \in Pages : ppc[p] = "idle" /\ ppc'[p] # "idle" }
      first == start_page + Cardinality(Tasked)
      n == Cardinality(New)
  IN  /\ \A p \in Tasked :
           /\ ppc'[p] # "idle"
           /\ ppc[p] # "listing" => ppc'[p] # "listing"
           /\ fetch[p][0].st # "wait" => fetch'[p][0].st # "wait"
      /\ New # {} =>
           /\ mainpc = "loop" /\ mainpc' = "gather"
           /\ New = first..(first + n - 1)
           /\ n <= batch_size
           /\ n = batch_size \/ first + n - 1 = end_page
           /\ Cardinality(Tasked) % batch_size = 0
      /\ (mainpc = "loop" /\ mainpc' = "gather") => New # {}

\* C13: scrape_all_doctors partitions [start_page, end_page] into consecutive
\* batches: every page of the range gets exactly one page task in exactly one
\* batch, no page outside the range is fetched, batches cover increasing
\* contiguous ranges, every batch but the last has batch_size pages and the
\* last has between 1 and batch_size.
C13_BatchPlan == []PlanState /\ [][PlanStep]_vars

\* The last batch of a range is running with a single page, fewer than
\* batch_size, after full batches whose pages have all returned.
C13_Witness ==
  /\ batch_size > 1 /\ end_page > start_page
  /\ (end_page - start_page) % batch_size = 0
  /\ mainpc = "gather" /\ batch_start = end_page
  /\ ppc[end_page] = "listing"
  /\ \A p \in start_page..(end_page - 1) : ppc[p] = "done"

\* The index of the batch a page of the range belongs to.
BatchOf(p) == (p - start_page) \div batch_size

\* C14: batches are separated by a barrier: a page has a task or a fetch only
\* when the loop variable has reached its batch, which it does after the
\* pause that follows the batch before; and then every page task of every
\* earlier batch has finished, with its listing fetch, its detail fetches
\* and its appends to the accumulator.
C14_Barrier ==
  \A q \in Tasked \cup Fetched :
    /\ BatchOf(q) <= BatchOf(batch_start)
    /\ mainpc \in {"loop", "pause"} /\ ~intr => ppc[q] = "done"
    /\ \A p \in start_page..end_page :
         BatchOf(p) < BatchOf(q) =>
           /\ ppc[p] = "done"
           /\ \A i \in Slots : fetch[p][i].st \in {"none", "ok", "fail"}
           /\ HasRecords(p)

\* A detail request of the second batch is in flight; the page of the first
\* batch has returned with its record in the accumulator.
C14_Witness ==
  \E q \in Pages :
    /\ BatchOf(q) = 1 /\ ppc[q] = "details"
    /\ \E i \in StubSlots(q) : fetch[q][i].st = "req"
    /\ \A p \in start_page..(q - 1) : ppc[p] = "done" /\ stubs[p] # << >> /\ HasRecords(p)

\* The run completed normally: the batch loop was exhausted.
NormalEnd == mainpc = "exit_ok" \/ (exit = "returned" /\ ~intr)

\* The pages of the range whose listing fetch returned a document.
ListedPages == { p \in start_page..end_page : fetch[p][0].st = "ok" }

\* C15: after a run that completes normally the accumulator holds exactly one
\* record for every stub of every page of the range whose listing fetch
\* succeeded, whatever the outcome of the stub's detail fetch; the record
\* count is the sum of the stub counts of those pages, nothing being lost or
\* duplicated by the page tasks of one batch appending concurrently.
C15_OnePerStub ==
  NormalEnd =>
    /\ Len(doctors_data) = SumOver([p \in ListedPages |-> Len(stubs[p])], ListedPages)
    /\ \A p \in ListedPages : \A i \in StubSlots(p) :
         /\ fetch[p][i].st \in {"ok", "fail"}
         /\ Cardinality({ k \in Records : origin[k] = << p, i >> }) = 1
         /\ \A k \in Records :
              origin[k] = << p, i >> => doctors_data[k] = Update(stubs[p][i], det[p][i][1])
    /\ \A k \in Records : origin[k][1] \in ListedPages /\ origin[k][2] \in StubSlots(origin[k][1])

\* Two pages of one batch each gave a stub; the detail fetch of one failed on
\* every attempt; the later page appended first, and both records are there
\* when the run completes.
C15_Witness ==
  /\ NormalEnd /\ batch_size = 2
  /\ Len(doctors_data) = 2 /\ Cardinality(ListedPages) = 2
  /\ origin[1][1] > origin[2][1]
  /\ \E k \in Records : CallOf(k).st = "fail"
  /\ \E k \in Records : CallOf(k).st = "ok"

\* C16: the accumulator is append-only across every step of a run, failed
\* fetches, faults and cancellation included: its contents before a step are
\* a prefix of its contents after the step, so a record once appended is
\* never removed, replaced or reordered.
C16_AppendOnly == [][IsPrefix(doctors_data, doctors_data') /\ IsPrefix(origin, origin')]_vars

\* A record appended after a failed attempt of its detail fetch is in the
\* accumulator, as the error flush saw it, after the task of another page
\* faulted and main re-raised.
C16_Witness ==
  /\ exit = "raised" /\ nfaults > 0
  /\ Len(doctors_data) = 1 /\ Len(CallOf(1).hist) > 1
  /\ \E pi \in Calls : Call(pi).st = "raised" /\ pi[1] # origin[1][1]
  /\ sink[Len(sink)].data = doctors_data

\* An exception has escaped a task and main has neither left nor been
\* interrupted.
FaultPending == exit = "running" /\ ~intr /\ nfaults > 0

\* The steps that carry an escaped exception to the caller: the detail
\* gather raises in the page task, the batch gather raises in main, main
\* saves and re-raises.
Surface == (\E p \in Pages : PageRaise(p)) \/ BatchRaise \/ CloseErr

\* The flush of a fault: save_to_csv receives the accumulator as it is, at
\* the 'error' destination.
ErrorFlush(log, data) ==
  Append(log, [dest |-> "doctors_data_error.csv", data |-> data, written |-> data # << >>])

\* C17: when an exception escapes a per-page or per-stub task during a batch
\* the run does not hang: the next step towards the caller is always enabled,
\* whatever the other tasks do; the sink is invoked with the 'error'
\* destination on the accumulator, which holds every record appended before
\* the fault; and the exception is surfaced in the step that follows that
\* flush, never without it.
C17_FaultFlush ==
  /\ [](FaultPending => mainpc \in {"gather", "exit_err"} /\ ENABLED Surface)
  /\ [](exit = "raised" =>
          /\ nfaults > 0 /\ sink # << >>
          /\ sink[Len(sink)].dest = "doctors_data_error.csv"
          /\ IsPrefix(sink[Len(sink)].data, doctors_data))
  /\ [][(exit = "running" /\ exit' = "raised") =>
          /\ nfaults > 0
          /\ sink' = ErrorFlush(sink, doctors_data)
          /\ doctors_data' = doctors_data]_vars

\* main left by the exception of a faulted detail task after writing the
\* record of another page, appended before the fault, to the 'error'
\* destination.
C17_Witness ==
  /\ exit = "raised"
  /\ \E pi \in Calls : Call(pi).st = "raised" /\ pi[2] > 0
  /\ sink = << [dest |-> "doctors_data_error.csv", data |-> doctors_data, written |-> TRUE] >>
  /\ Len(doctors_data) = 1

\* C18: in both fan-outs a fault reaches the awaiting parent only after
\* every sibling task has settled: when the detail gather has raised in a
\* page task no detail call of that page is in progress, when the batch
\* gather has raised in main no call is in progress at all, and no record is
\* appended after the flush of the fault.
C18_SiblingsSettled ==
  /\ \A p \in Pages :
       ppc[p] = "faulted" => \A i \in Slots : ~InProgress(fetch[p][i].st)
  /\ (mainpc = "exit_err" \/ exit = "raised") =>
       /\ \A pi \in Calls : ~InProgress(Call(pi).st)
       /\ \A p \in Pages : ppc[p] \notin {"listing", "details"}
  /\ exit = "raised" => sink[Len(sink)].data = doctors_data

\* C19: when cancellation arrives while a batch is running, the detail
\* fetches already dispatched drain: none of them ends cancelled, each has
\* its document or failure outcome, and its record is in the accumulator
\* when main has left.
C19_DetailsDrain ==
  (intr /\ mainpc = "done") =>
    \A p \in Pages : \A i \in StubSlots(p) :
      /\ fetch[p][i].st \in {"ok", "fail"}
      /\ \E k \in Records : origin[k] = << p, i >>

\* A step in which call pi issues a fetch attempt: session.get is called.
Issues(pi) == fetch[pi[1]][pi[2]].st # "req" /\ fetch'[pi[1]][pi[2]].st = "req"

\* The session is open exactly between __aenter__ and __aexit__, closed once
\* main has left, and never reopened.
SessionClosedOnExit ==
  /\ (mainpc = "start") = (session = "none")
  /\ (mainpc = "done") = (session = "closed")
  /\ exit # "running" => mainpc = "done"

\* C20: every fetch attempt of a run is issued while the session is open,
\* the session is closed once on every exit path (normal completion,
\* cancellation, fault), and no fetch attempt is issued on it after the close.
C20_SessionScoped ==
  /\ []SessionClosedOnExit
  /\ [][\A pi \in Calls : Issues(pi) => session = "open"]_vars

\* The backoff sleeps of a call, by the state the call is in: one after each
\* failed attempt so far, none after a success and none after the attempt
\* that exhausts max_retries.
SleepCount(c) ==
  /\ c.sleeps <= max_retries - 1
  /\ c.st = "req" => c.sleeps = Len(c.hist) /\ AllFail(c.hist)
  /\ c.st = "sleep" =>
       /\ c.sleeps = Len(c.hist) /\ AllFail(c.hist)
       /\ Len(c.hist) < max_retries
  /\ c.st = "ok" => c.sleeps = Len(c.hist) - 1
  /\ c.st = "fail" => Len(c.hist) = max_retries /\ c.sleeps = max_retries - 1

\* A call starts to sleep only in the step in which an attempt that is not
\* the last permitted one fails, and the attempt that exhausts max_retries
\* makes the call return in the same step.
SleepStep(pi) ==
  LET c == fetch[pi[1]][pi[2]]
      d == fetch'[pi[1]][pi[2]]
  IN  /\ (d.st = "sleep" /\ c.st # "sleep") =>
           /\ c.st = "req"
           /\ d.hist = Append(c.hist, "fail")
           /\ Len(d.hist) < max_retries
      /\ (c.st # "none" /\ d.sleeps # c.sleeps) => (d.sleeps = c.sleeps + 1 /\ d.st = "sleep" /\ c.st = "req")
      /\ (d.hist = Append(c.hist, "fail") /\ Len(d.hist) = max_retries) =>
           (d.st = "fail" /\ d.sleeps = c.sleeps)

\* C21: within one get_page call the backoff sleep occurs after each failed
\* attempt that is not the last permitted one and nowhere else: a call that
\* succeeds on attempt N has slept N-1 times (zero when N = 1), and a call
\* that exhausts max_retries attempts has slept max_retries-1 times and
\* returns None without sleeping after the final attempt.
C21_BackoffSleeps ==
  /\ [](\A pi \in Calls : SleepCount(Call(pi)))
  /\ [][\A pi \in Calls : SleepStep(pi)]_vars

\* One call gave up after max_retries failed attempts and max_retries - 1
\* sleeps; another call succeeded on its first attempt without sleeping.
C21_Witness ==
  /\ \E pi \in Calls : /\ Call(pi).st = "fail"
                       /\ Call(pi).sleeps = max_retries - 1
                       /\ Len(Call(pi).hist) = max_retries
  /\ \E pi \in Calls : Call(pi).st = "ok" /\ Call(pi).sleeps = 0 /\ Len(Call(pi).hist) = 1

\* No task waits for the gate while it holds a permit: a waiting call holds
\* none, and the detail calls of a page exist only after the listing call of
\* that page has returned its document and given its permit back.
NoHoldAndWait ==
  /\ \A pi \in Calls : Call(pi).st = "wait" => Call(pi).acq = 0
  /\ \A p \in Pages : \A i \in 1..MaxItems :
       fetch[p][i].st # "none" =>
         /\ fetch[p][0].st = "ok"
         /\ fetch[p][0].rel = 1

\* The run has completed its last batch and returned.
RunCompleted ==
  /\ exit = "returned"
  /\ \A p \in start_page..end_page : ppc[p] = "done"
  /\ \A pi \in Calls : Call(pi).st \in {"none", "ok", "fail"}
  /\ sem = max_concurrent

\* C22: when every fetch attempt eventually finishes and no cancellation
\* occurs, every run of scrape_all_doctors eventually completes its last
\* batch; no task waits for the gate while holding a permit, so no task
\* waits on the gate forever, even with max_concurrent = 1 and more pending
\* fetches than permits.
C22_Terminates == []NoHoldAndWait /\ <>RunCompleted

\* A run with a single permit has completed although two detail fetches
\* were pending at once and one call slept in its backoff while holding the
\* permit.
C22_Witness ==
  /\ RunCompleted /\ max_concurrent = 1
  /\ \E p \in Pages : Len(stubs[p]) = 2
  /\ \E pi \in Calls : Call(pi).sleeps > 0
  /\ Len(doctors_data) = 2

\* The positions of the records of page p in the accumulator.
RecordsOf(p) == { k \in Records : origin[k][1] = p }

\* An exception escaped the call.
Faulted(c) == \E j \in 1..Len(c.hist) : c.hist[j] = "fault"

\* The records of page p are all there, side by side and in stub order,
\* starting at position a.
GroupAt(p, a) ==
  /\ RecordsOf(p) = a..(a + Len(stubs[p]) - 1)
  /\ \A i \in StubSlots(p) :
       /\ origin[a + i - 1] = << p, i >>
       /\ doctors_data[a + i - 1] = Update(stubs[p][i], det[p][i][1])

\* C23: the records of a listing page enter the accumulator as one group: in
\* every state either none or all of them are in it, and then contiguous and
\* in the order of the page's stubs; they are in it exactly when the page
\* task has returned; and when a detail task of the page faulted none of
\* them is appended.
C23_PageGroup ==
  /\ Len(origin) = Len(doctors_data)
  /\ \A p \in Pages :
       /\ RecordsOf(p) = {} \/ \E a \in Records : GroupAt(p, a)
       /\ RecordsOf(p) # {} <=> (ppc[p] = "done" /\ stubs[p] # << >>)
       /\ (\E i \in Slots : Faulted(fetch[p][i])) => RecordsOf(p) = {}

\* A page with two stubs: the detail task of one returned its details, the
\* detail task of the other faulted, and the page has no record in the
\* accumulator when main has left.
C23_Witness ==
  \E p \in Pages :
    /\ Len(stubs[p]) = 2 /\ exit = "raised"
    /\ \E i \in StubSlots(p) : fetch[p][i].st = "ok" /\ det[p][i] # << >>
    /\ \E i \in StubSlots(p) : Faulted(fetch[p][i])
    /\ RecordsOf(p) = {} /\ doctors_data = << >>

\* The calls that have been made, and the gate acquisitions so far.
CallsMade == { pi \in Calls : Call(pi).st # "none" }
Acquisitions == SumOver([pi \in Calls |-> Call(pi).acq], Calls)

\* A call has the gate from before its first attempt until it leaves,
\* backoff sleeps included, and has taken it once however many attempts it
\* made; the permits out are those of the calls in a request or a sleep.
OnePermitPerCall ==
  /\ \A pi \in Calls :
       LET c == Call(pi) IN
         /\ c.acq <= 1
         /\ c.hist # << >> => c.acq = 1
         /\ c.st \in {"req", "sleep"} => (c.acq = 1 /\ c.rel = 0)
         /\ c.st \in {"ok", "fail", "raised"} => (c.acq = 1 /\ c.rel = 1)
  /\ sem = max_concurrent
           - Cardinality({ pi \in Calls : Call(pi).st \in {"req", "sleep"} })
  /\ NormalEnd => Acquisitions = Cardinality(CallsMade)

\* The gate is taken in the step that issues the first attempt and in no
\* other; a retry after the backoff sleep takes and gives nothing.
AcquireStep(pi) ==
  LET c == fetch[pi[1]][pi[2]]
      d == fetch'[pi[1]][pi[2]]
  IN  /\ (c.st # "none" /\ d.acq # c.acq) =>
           (c.st = "wait" /\ d.st = "req" /\ c.hist = << >> /\ d.acq = 1 /\ sem' = sem - 1)
      /\ (c.st = "sleep" /\ d.st = "req") =>
           (d.acq = c.acq /\ d.rel = c.rel /\ sem' = sem)
      /\ (c.st = "req" /\ d.st = "sleep") => (d.rel = c.rel /\ sem' = sem)

\* C24: the admission gate is acquired once per get_page call, not once per
\* attempt: a call holds one permit from before its first attempt until it
\* returns, during every backoff sleep too, so the acquisitions of a run are
\* as many as its get_page calls however many retries occur.
C24_OncePerCall ==
  /\ []OnePermitPerCall
  /\ [][\A pi \in Calls : AcquireStep(pi)]_vars

\* With a single permit, a call is in its second backoff sleep still holding
\* the permit it took once, and another call waits for the gate.
C24_Witness ==
  /\ max_concurrent = 1 /\ sem = 0
  /\ \E pi \in Calls : /\ Call(pi).st = "sleep" /\ Call(pi).sleeps = max_retries - 1
                       /\ Call(pi).acq = 1 /\ Call(pi).rel = 0
  /\ \E pi \in Calls : Call(pi).st = "wait"
  /\ Acquisitions = 1

====
